---- MODULE Spec2Model ----
(***************************************************************************)
(* Model of the System Diagnostic Utility: the SystemDiagnostic class of   *)
(* system_diagnostic.py (one results dictionary filled by the check_*      *)
(* methods, generate_recommendations, print_summary, save_report) and the  *)
(* command-line entry point of main.py.                                    *)
(*                                                                         *)
(* Units.  A percentage supplied by the metrics provider is an integer     *)
(* number of thousandths of a percent (80004 is 80.004%).  A value stored  *)
(* with round(x, 2) is an integer number of hundredths (8000 is 80.00), a  *)
(* value formatted with :.1f an integer number of tenths.  Disk usage is   *)
(* the pair (used, total) and its percentage the exact quotient            *)
(* used / total * 100.  Temperatures are hundredths of a degree.           *)
(* The capacity fields in GB, the clock frequencies, the core count and    *)
(* the per-interface network details are stored by the code but read by no *)
(* other operation; the entries of the model keep the remaining fields.    *)
(***************************************************************************)
EXTENDS Integers, Sequences, FiniteSets, TLC

VARIABLES results, pc, ra, args, exit_status, exc, trace, last, left

vars == <<results, pc, ra, args, exit_status, exc, trace, last, left>>

(***************************************************************************)
(* Bounds of the model.                                                    *)
(***************************************************************************)
\* check_* calls made directly on one SystemDiagnostic object (Spec)
MaxChecks == 2
\* check_* calls made on one object with the wide sample sets (CheckSpec)
MaxProbes == 1
\* partitions returned by one psutil.disk_partitions() call (Spec, CheckSpec)
MaxParts == 2
\* partitions of the host main.py runs on (MainSpec)
MaxHostParts == 1
\* processes returned by one psutil.process_iter() call
MaxProcs == 1
\* temperature readings returned by one psutil.sensors_temperatures() call
MaxSensors == 2
\* processes returned by one psutil.process_iter() call (RankSpec)
MaxRanked == 8

(***************************************************************************)
(* Python values.                                                          *)
(***************************************************************************)
\* None, for numeric attributes the provider may leave unset
None == -1

\* truth value of a number or None, as `if x` and `x and ...` take it
Truthy(x) == x # None /\ x # 0

\* the empty dict {} of a results section
EmptyDict == << >>

\* dict.get(key, default)
Get(d, key, default) == IF key \in DOMAIN d THEN d[key] ELSE default

\* an insertion-ordered dict keyed by device: the keys in insertion order
\* and the value of each key
EmptyOrdered == [keys |-> << >>, vals |-> << >>]

Range(s) == {s[i] : i \in DOMAIN s}

\* d[k] = v on an insertion-ordered dict: a new key goes last, an existing
\* key keeps its place and gets the new value
DictSet(d, k, v) ==
  [keys |-> IF k \in Range(d.keys) THEN d.keys ELSE Append(d.keys, k),
   vals |-> (k :> v) @@ d.vals]

\* round-half-even of n / d for n >= 0 and d > 0, as round(x, k) and the
\* :.1f format round the quotient
RoundDiv(n, d) ==
  LET q == n \div d
      r == n % d
  IN IF 2 * r < d THEN q
     ELSE IF 2 * r > d THEN q + 1
     ELSE IF q % 2 = 0 THEN q ELSE q + 1

\* one element of results['issues'] or results['recommendations']: the
\* text's fixed part and the values formatted into it
Text(kind, dev, mount, val) ==
  [kind |-> kind, dev |-> dev, mount |-> mount, val |-> val]

\* the sequences over S of length at most n
SeqsUpTo(S, n) == UNION {[1..k -> S] : k \in 0..n}

\* the tuples of the set S in ascending order of their first component
RECURSIVE Ascending(_)
Ascending(S) ==
  IF S = {} THEN << >>
  ELSE LET m == CHOOSE x \in S : \A y \in S : x[1] <= y[1]
       IN << m >> \o Ascending(S \ {m})

Reverse(s) == [i \in DOMAIN s |-> s[Len(s) + 1 - i]]

\* at most n elements of S, each once, in ascending or descending order
\* of their first component
Enumerations(S, n) ==
  UNION {{Ascending(T), Reverse(Ascending(T))} : T \in {U \in SUBSET S : Cardinality(U) <= n}}

(***************************************************************************)
(* SystemDiagnostic.__init__                                               *)
(***************************************************************************)
NewResults ==
  [timestamp       |-> "now",
   system_info     |-> EmptyDict,
   disk_health     |-> EmptyOrdered,
   memory_health   |-> EmptyDict,
   cpu_health      |-> EmptyDict,
   network_health  |-> EmptyDict,
   process_health  |-> EmptyDict,
   issues          |-> << >>,
   recommendations |-> << >>]

(***************************************************************************)
(* check_system_info                                                       *)
(***************************************************************************)
\* inp.fail: a platform.* call raises
check_system_info(r, inp) ==
  IF inp.fail
  THEN [r EXCEPT !.issues = Append(@, Text("Error collecting system info", "", "", 0))]
  ELSE [r EXCEPT !.system_info = [os |-> inp.os]]

(***************************************************************************)
(* check_disk_health                                                       *)
(***************************************************************************)
\* percent_used > t for percent_used = (used / total) * 100, total > 0
DiskPercentOver(u, t) == u.used * 100 > t * u.total

\* the entry and the issue of one partition whose disk_usage call returned
DiskUsageEntry(p) ==
  [mountpoint   |-> p.mountpoint,
   percent_used |-> RoundDiv(p.used * 10000, p.total),
   status       |-> IF DiskPercentOver(p, 90) THEN "critical"
                    ELSE IF DiskPercentOver(p, 80) THEN "warning"
                    ELSE "healthy"]

\* variant of DiskUsageIssues without the elif branch of the warning
DiskUsageIssuesCriticalOnly(p) ==
  IF DiskPercentOver(p, 90)
  THEN << Text("CRITICAL: disk full!", p.device, p.mountpoint, RoundDiv(p.used * 1000, p.total)) >>
  ELSE << >>

DiskUsageIssues(p) ==
  IF DiskPercentOver(p, 90)
  THEN << Text("CRITICAL: disk full!", p.device, p.mountpoint, RoundDiv(p.used * 1000, p.total)) >>
  ELSE IF DiskPercentOver(p, 80)
  THEN << Text("WARNING: disk full", p.device, p.mountpoint, RoundDiv(p.used * 1000, p.total)) >>
  ELSE << >>

\* the body of the loop over the partitions: p.outcome is what
\* psutil.disk_usage(p.mountpoint) does ("ok": returns used and total,
\* "denied": raises PermissionError, "error": raises another exception)
DiskPartition(acc, p) ==
  IF p.outcome = "denied"
  THEN [acc EXCEPT !.disk_info = DictSet(@, p.device,
            [mountpoint |-> p.mountpoint, status |-> "access_denied"])]
  ELSE IF p.outcome = "error"
  THEN [acc EXCEPT !.disk_info = DictSet(@, p.device,
            [mountpoint |-> p.mountpoint, status |-> "error: os error"])]
  ELSE IF p.total = 0
  THEN \* used / total raises ZeroDivisionError before the entry is stored
       [acc EXCEPT !.disk_info = DictSet(@, p.device,
            [mountpoint |-> p.mountpoint, status |-> "error: division by zero"])]
  ELSE [disk_info |-> DictSet(acc.disk_info, p.device, DiskUsageEntry(p)),
        issues    |-> acc.issues \o DiskUsageIssues(p)]

RECURSIVE DiskLoop(_, _)
DiskLoop(acc, parts) ==
  IF parts = << >> THEN acc
  ELSE DiskLoop(DiskPartition(acc, Head(parts)), Tail(parts))

\* variant of check_disk_health that stores the local disk_info, still
\* empty, also when the enumeration fails
check_disk_health_clearing(r, inp) ==
  IF inp.fail
  THEN [r EXCEPT !.issues = Append(@, Text("Error checking disk health", "", "", 0)),
                 !.disk_health = EmptyOrdered]
  ELSE LET out == DiskLoop([disk_info |-> EmptyOrdered, issues |-> r.issues], inp.parts)
       IN [r EXCEPT !.disk_health = out.disk_info, !.issues = out.issues]

\* inp.fail: psutil.disk_partitions() raises; inp.parts: what it returns
check_disk_health(r, inp) ==
  IF inp.fail
  THEN [r EXCEPT !.issues = Append(@, Text("Error checking disk health", "", "", 0))]
  ELSE LET out == DiskLoop([disk_info |-> EmptyOrdered, issues |-> r.issues], inp.parts)
       IN [r EXCEPT !.disk_health = out.disk_info, !.issues = out.issues]

(***************************************************************************)
(* check_memory_health                                                     *)
(***************************************************************************)
\* inp.fail: virtual_memory() or swap_memory() raises; inp.percent:
\* memory.percent; inp.swap_total, inp.swap_percent: swap.total, swap.percent
MemorySwapPercent(inp) == IF inp.swap_total > 0 THEN inp.swap_percent ELSE 0

\* variant of MemoryStatus with inclusive comparisons (>= for >)
MemoryStatusInclusive(percent) ==
  IF percent >= 90000 THEN "critical"
  ELSE IF percent >= 80000 THEN "warning"
  ELSE "healthy"

MemoryStatus(percent) ==
  IF percent > 90000 THEN "critical"
  ELSE IF percent > 80000 THEN "warning"
  ELSE "healthy"

MemoryIssues(inp) ==
  (IF inp.percent > 90000
   THEN << Text("CRITICAL: Memory usage!", "", "", RoundDiv(inp.percent, 100)) >>
   ELSE IF inp.percent > 80000
   THEN << Text("WARNING: Memory usage", "", "", RoundDiv(inp.percent, 100)) >>
   ELSE << >>)
  \o
  (IF MemorySwapPercent(inp) > 80000 /\ inp.swap_total > 0
   THEN << Text("WARNING: High swap usage", "", "", RoundDiv(MemorySwapPercent(inp), 100)) >>
   ELSE << >>)

\* variant of check_memory_health that assigns a new issues list instead
\* of appending to the one of the report
check_memory_health_reset(r, inp) ==
  IF inp.fail
  THEN [r EXCEPT !.issues = << Text("Error checking memory", "", "", 0) >>]
  ELSE [r EXCEPT !.issues = MemoryIssues(inp),
                 !.memory_health =
                    [percent_used |-> RoundDiv(inp.percent, 10),
                     swap_percent |-> RoundDiv(MemorySwapPercent(inp), 10),
                     status       |-> MemoryStatus(inp.percent)]]

check_memory_health(r, inp) ==
  IF inp.fail
  THEN [r EXCEPT !.issues = Append(@, Text("Error checking memory", "", "", 0))]
  ELSE [r EXCEPT !.issues = @ \o MemoryIssues(inp),
                 !.memory_health =
                    [percent_used |-> RoundDiv(inp.percent, 10),
                     swap_percent |-> RoundDiv(MemorySwapPercent(inp), 10),
                     status       |-> MemoryStatus(inp.percent)]]

(***************************************************************************)
(* check_cpu_health                                                        *)
(***************************************************************************)
\* 'cpu' in name.lower() or 'core' in name.lower(), on the sensor names of
\* the model
IsCpuSensor(name) == name \in {"coretemp", "cpu_thermal"}

CpuStatus(percent) ==
  IF percent > 90000 THEN "critical"
  ELSE IF percent > 80000 THEN "warning"
  ELSE "healthy"

CpuUsageIssues(percent) ==
  IF percent > 90000
  THEN << Text("CRITICAL: CPU usage!", "", "", RoundDiv(percent, 100)) >>
  ELSE IF percent > 80000
  THEN << Text("WARNING: CPU usage", "", "", RoundDiv(percent, 100)) >>
  ELSE << >>

\* variant of CpuSensor without the test on the sensor's name
CpuSensorUnfiltered(acc, e) ==
  [temperatures |->
     DictSet(acc.temperatures, IF e.label # "" THEN e.label ELSE e.name,
             [current  |-> e.current,
              critical |-> IF Truthy(e.critical) THEN e.critical ELSE None]),
   issues |->
     IF Truthy(e.critical) /\ e.current > e.critical
     THEN Append(acc.issues, Text("CRITICAL: CPU temperature", "", "", e.current))
     ELSE acc.issues]

\* the body of the loop over the readings of psutil.sensors_temperatures():
\* e.name is the key of the reading's list, e.label, e.current and
\* e.critical the reading
CpuSensor(acc, e) ==
  IF IsCpuSensor(e.name)
  THEN [temperatures |->
          DictSet(acc.temperatures, IF e.label # "" THEN e.label ELSE e.name,
                  [current  |-> e.current,
                   critical |-> IF Truthy(e.critical) THEN e.critical ELSE None]),
        issues |->
          IF Truthy(e.critical) /\ e.current > e.critical
          THEN Append(acc.issues, Text("CRITICAL: CPU temperature", "", "", e.current))
          ELSE acc.issues]
  ELSE acc

RECURSIVE CpuSensorLoop(_, _)
CpuSensorLoop(acc, sensors) ==
  IF sensors = << >> THEN acc
  ELSE CpuSensorLoop(CpuSensor(acc, Head(sensors)), Tail(sensors))

\* variant of check_cpu_health whose outer handler passes silently, as
\* the handler of the temperature block does
check_cpu_health_silent(r, inp) ==
  IF inp.fail
  THEN r
  ELSE LET base  == [usage_percent |-> RoundDiv(inp.percent, 10),
                     status        |-> CpuStatus(inp.percent)]
           usage == r.issues \o CpuUsageIssues(inp.percent)
           out   == CpuSensorLoop([temperatures |-> EmptyOrdered, issues |-> usage],
                                  inp.sensors)
       IN [r EXCEPT !.issues = out.issues,
                    !.cpu_health =
                      IF inp.sensors = << >> THEN base
                      ELSE [usage_percent |-> base.usage_percent,
                            status        |-> base.status,
                            temperatures  |-> out.temperatures]]

\* inp.fail: cpu_percent, cpu_count or cpu_freq raises; inp.percent: the
\* aggregate cpu_percent; inp.sensors: the readings, empty when the
\* platform has no sensors_temperatures, the call raises or returns {}
check_cpu_health(r, inp) ==
  IF inp.fail
  THEN [r EXCEPT !.issues = Append(@, Text("Error checking CPU", "", "", 0))]
  ELSE LET base  == [usage_percent |-> RoundDiv(inp.percent, 10),
                     status        |-> CpuStatus(inp.percent)]
           usage == r.issues \o CpuUsageIssues(inp.percent)
           out   == CpuSensorLoop([temperatures |-> EmptyOrdered, issues |-> usage],
                                  inp.sensors)
       IN [r EXCEPT !.issues = out.issues,
                    !.cpu_health =
                      IF inp.sensors = << >> THEN base
                      ELSE [usage_percent |-> base.usage_percent,
                            status        |-> base.status,
                            temperatures  |-> out.temperatures]]

(***************************************************************************)
(* check_network_health                                                    *)
(***************************************************************************)
\* inp.fail: net_io_counters, net_if_addrs or net_if_stats raises;
\* inp.ping: the loopback ping returns 0 (FALSE also for a timeout or a
\* ping command that cannot be run)
check_network_health(r, inp) ==
  IF inp.fail
  THEN [r EXCEPT !.issues = Append(@, Text("Error checking network", "", "", 0))]
  ELSE [r EXCEPT !.network_health = [localhost_connectivity |-> inp.ping]]

(***************************************************************************)
(* check_process_health                                                    *)
(***************************************************************************)
\* list.sort(key=..., reverse=True): descending and stable
RECURSIVE InsertDesc(_, _, _)
InsertDesc(s, x, key) ==
  IF s = << >> THEN << x >>
  ELSE IF Head(s)[key] >= x[key] THEN << Head(s) >> \o InsertDesc(Tail(s), x, key)
  ELSE << x >> \o s

\* variant of SortDesc that leaves the list in enumeration order
SortDescKeepOrder(s, key) == s

RECURSIVE SortDesc(_, _)
SortDesc(s, key) ==
  IF s = << >> THEN << >>
  ELSE InsertDesc(SortDesc(SubSeq(s, 1, Len(s) - 1), key), s[Len(s)], key)

\* s[:5]
Top5(s) == SubSeq(s, 1, IF Len(s) < 5 THEN Len(s) ELSE 5)

\* the body of the loop over psutil.process_iter(): p.gone is proc.info
\* raising NoSuchProcess or AccessDenied, p.cpu_percent and
\* p.memory_percent are None when the attribute could not be read
ProcessOne(acc, p) ==
  IF p.gone THEN acc
  ELSE [processes |-> acc.processes + 1,
        high_cpu  |->
          IF Truthy(p.cpu_percent) /\ p.cpu_percent > 50000
          THEN Append(acc.high_cpu,
                      [pid |-> p.pid, name |-> p.name,
                       cpu_percent |-> RoundDiv(p.cpu_percent, 10)])
          ELSE acc.high_cpu,
        high_mem  |->
          IF Truthy(p.memory_percent) /\ p.memory_percent > 10000
          THEN Append(acc.high_mem,
                      [pid |-> p.pid, name |-> p.name,
                       memory_percent |-> RoundDiv(p.memory_percent, 10)])
          ELSE acc.high_mem]

RECURSIVE ProcessLoop(_, _)
ProcessLoop(acc, procs) ==
  IF procs = << >> THEN acc
  ELSE ProcessLoop(ProcessOne(acc, Head(procs)), Tail(procs))

\* inp.fail: psutil.process_iter() raises; inp.procs: what it yields
check_process_health(r, inp) ==
  IF inp.fail
  THEN [r EXCEPT !.issues = Append(@, Text("Error checking processes", "", "", 0))]
  ELSE LET out == ProcessLoop([processes |-> 0, high_cpu |-> << >>, high_mem |-> << >>],
                              inp.procs)
       IN [r EXCEPT !.process_health =
             [total_processes      |-> out.processes,
              top_cpu_processes    |-> Top5(SortDesc(out.high_cpu, "cpu_percent")),
              top_memory_processes |-> Top5(SortDesc(out.high_mem, "memory_percent"))]]

(***************************************************************************)
(* check_disk_errors                                                       *)
(***************************************************************************)
\* inp.fail: platform.system() raises; inp.io: psutil.disk_io_counters()
\* returns (FALSE: it raises or returns None, which the inner handler and
\* the `if disk_io` absorb).  Only text is printed otherwise.
check_disk_errors(r, inp) ==
  IF inp.fail
  THEN [r EXCEPT !.issues = Append(@, Text("Error checking disk errors", "", "", 0))]
  ELSE r

(***************************************************************************)
(* generate_recommendations                                                *)
(***************************************************************************)
RECURSIVE DiskRecommendations(_, _)
DiskRecommendations(keys, vals) ==
  IF keys = << >> THEN << >>
  ELSE LET device == Head(keys)
           info   == vals[device]
       IN (IF Get(info, "percent_used", 0) > 8000
           THEN << Text("Free up space", device, Get(info, "mountpoint", "unknown"),
                        RoundDiv(Get(info, "percent_used", 0), 10)) >>
           ELSE << >>)
          \o DiskRecommendations(Tail(keys), vals)

Sentinel == Text("System appears to be running normally. No immediate action required.", "", "", 0)

\* variant of FoundRecommendations whose memory, CPU and process rules
\* form an if/elif chain: the first that applies is the only one added
FoundRecommendationsChained(r) ==
  LET top_cpu == Get(r.process_health, "top_cpu_processes", << >>)
  IN DiskRecommendations(r.disk_health.keys, r.disk_health.vals)
     \o (IF Get(r.memory_health, "percent_used", 0) > 8000
         THEN << Text("High memory usage detected", "", "", 0) >>
         ELSE IF Get(r.cpu_health, "usage_percent", 0) > 8000
         THEN << Text("High CPU usage detected", "", "", 0) >>
         ELSE IF top_cpu # << >> /\ Get(top_cpu[1], "cpu_percent", 0) > 8000
         THEN << Text("Process is using high CPU", Get(top_cpu[1], "name", "unknown"), "", 0) >>
         ELSE << >>)

\* the recommendations of the four rules, in rule order
FoundRecommendations(r) ==
  LET top_cpu == Get(r.process_health, "top_cpu_processes", << >>)
  IN DiskRecommendations(r.disk_health.keys, r.disk_health.vals)
     \o (IF Get(r.memory_health, "percent_used", 0) > 8000
         THEN << Text("High memory usage detected", "", "", 0) >> ELSE << >>)
     \o (IF Get(r.cpu_health, "usage_percent", 0) > 8000
         THEN << Text("High CPU usage detected", "", "", 0) >> ELSE << >>)
     \o (IF top_cpu # << >> /\ Get(top_cpu[1], "cpu_percent", 0) > 8000
         THEN << Text("Process is using high CPU", Get(top_cpu[1], "name", "unknown"), "", 0) >>
         ELSE << >>)

\* variant of Recommendations that adds the sentinel when no issue was
\* recorded instead of when no rule fired
RecommendationsByIssues(r) ==
  IF r.issues = << >> THEN Append(FoundRecommendations(r), Sentinel)
  ELSE FoundRecommendations(r)

\* variant of Recommendations without the `if not recommendations` step
RecommendationsNoFallback(r) == FoundRecommendations(r)

\* the local list `recommendations` when it is stored
Recommendations(r) ==
  IF FoundRecommendations(r) = << >> THEN << Sentinel >> ELSE FoundRecommendations(r)

\* variant of generate_recommendations that extends the stored list
\* instead of replacing it
generate_recommendations_extend(r) ==
  [r EXCEPT !.recommendations = @ \o Recommendations(r)]

generate_recommendations(r) == [r EXCEPT !.recommendations = Recommendations(r)]

(***************************************************************************)
(* What the metrics provider can return: the sample sets of the model.     *)
(***************************************************************************)
Devices == {"sda1", "sdb1"}

\* the mountpoint of the i-th partition of an enumeration
Mounts == << "/", "/mnt", "/data", "/srv" >>

Usage(outcome, used, total) == [outcome |-> outcome, used |-> used, total |-> total]

\* a full disk and an unreadable one
NarrowUsages == {Usage("ok", 95, 100), Usage("denied", 0, 0)}

\* 50%, 80.0%, 80.004%, 83.33..%, 90.0%, 92%, an empty device, and the two
\* failures of disk_usage
WideUsages ==
  {Usage("ok", 1, 2), Usage("ok", 80000, 100000), Usage("ok", 80004, 100000),
   Usage("ok", 5, 6), Usage("ok", 9, 10), Usage("ok", 92, 100), Usage("ok", 0, 0),
   Usage("denied", 0, 0), Usage("error", 0, 0)}

PartLists(n, usages) ==
  {[i \in DOMAIN c |-> [device     |-> c[i][1],
                        mountpoint |-> Mounts[i],
                        outcome    |-> c[i][2].outcome,
                        used       |-> c[i][2].used,
                        total      |-> c[i][2].total]] :
     c \in SeqsUpTo(Devices \X usages, n)}

DiskInputs(n, usages) ==
  {[fail |-> TRUE, parts |-> << >>]}
  \cup {[fail |-> FALSE, parts |-> ps] : ps \in PartLists(n, usages)}

NarrowPercents == {50000, 85000}

WidePercents == {50000, 80000, 80004, 90000, 90004, 95000, 100000}

MemoryInputs(percents) ==
  {[fail |-> TRUE, percent |-> 0, swap_total |-> 0, swap_percent |-> 0]}
  \cup {[fail |-> FALSE, percent |-> p, swap_total |-> s[1], swap_percent |-> s[2]] :
          p \in percents, s \in {<<0, 0>>, <<4, 85000>>}}

Reading(name, current, critical) ==
  [name |-> name, label |-> "", current |-> current, critical |-> critical]

\* name, current and critical of the readings: a core sensor above its
\* critical threshold, one that reports no threshold, and a hot sensor of
\* another chip
Readings ==
  {<<"coretemp", 10500, 10000>>, <<"coretemp", 6000, None>>, <<"acpitz", 10500, 10000>>}

SensorLists(n) ==
  {[i \in DOMAIN c |-> Reading(c[i][1], c[i][2], c[i][3])] : c \in SeqsUpTo(Readings, n)}

CpuInputs(percents, n) ==
  {[fail |-> TRUE, percent |-> 0, sensors |-> << >>]}
  \cup {[fail |-> FALSE, percent |-> p, sensors |-> s] :
          p \in percents, s \in SensorLists(n)}

Proc(pid, name, cpu, mem, gone) ==
  [pid |-> pid, name |-> name, cpu_percent |-> cpu, memory_percent |-> mem, gone |-> gone]

\* pid, name, CPU percent, memory percent of the processes, and whether
\* reading the process fails
Procs ==
  {<<1, "init", 0, 500, FALSE>>, <<7, "miner", 95000, 20000, FALSE>>,
   <<8, "build", 60000, None, FALSE>>, <<9, "gone", 0, 0, TRUE>>}

\* the eight processes of the top-5 example, CPU 95, 88, 77, 60, 55, 51,
\* 40 and 10 percent, six of them above 10% of memory, two of these with
\* memory percentages (12.001 and 12.004) that round to the same value, and
\* a process that exits while it is read
RankProcs ==
  {<<11, "p95", 95000, 30000, FALSE>>, <<12, "p88", 88000, 12001, FALSE>>,
   <<13, "p77", 77000, 25000, FALSE>>, <<14, "p60", 60000, 12004, FALSE>>,
   <<15, "p55", 55000, 20000, FALSE>>, <<16, "p51", 51000, 15000, FALSE>>,
   <<17, "p40", 40000, 10000, FALSE>>, <<18, "p10", 10000, None, FALSE>>,
   <<19, "gone", 0, 0, TRUE>>}

\* the processes of one enumeration, each process once, by ascending or
\* descending pid
ProcLists(n, procs) ==
  {[i \in DOMAIN c |-> Proc(c[i][1], c[i][2], c[i][3], c[i][4], c[i][5])] :
     c \in Enumerations(procs, n)}

ProcessInputs(n, procs) ==
  {[fail |-> TRUE, procs |-> << >>]}
  \cup {[fail |-> FALSE, procs |-> ps] : ps \in ProcLists(n, procs)}

SystemInputs == {[fail |-> FALSE, os |-> "Linux"], [fail |-> TRUE, os |-> "Linux"]}

NetworkInputs ==
  {[fail |-> FALSE, ping |-> FALSE], [fail |-> FALSE, ping |-> TRUE],
   [fail |-> TRUE, ping |-> FALSE]}

DiskErrorInputs ==
  {[fail |-> FALSE, io |-> FALSE], [fail |-> FALSE, io |-> TRUE],
   [fail |-> TRUE, io |-> FALSE]}

(***************************************************************************)
(* The callers.  pc is the position of the calling code: "idle" is a       *)
(* caller that holds a SystemDiagnostic object and calls its methods one   *)
(* at a time (example_usage.py); the other positions are those of main()   *)
(* of main.py and, inside it, of run_all_diagnostics, whose next call is   *)
(* RunAllOrder[ra].                                                        *)
(***************************************************************************)
\* variant of RunAllOrder with the memory check before the disk check
RunAllOrderMemoryFirst ==
  << "check_system_info", "check_memory_health", "check_disk_health",
     "check_cpu_health", "check_network_health", "check_process_health",
     "check_disk_errors", "generate_recommendations" >>

RunAllOrder ==
  << "check_system_info", "check_disk_health", "check_memory_health",
     "check_cpu_health", "check_network_health", "check_process_health",
     "check_disk_errors", "generate_recommendations" >>

\* the command line of main.py: the store_true flags and whether --save
\* FILENAME was given
ArgSets ==
  [disk : BOOLEAN, memory : BOOLEAN, cpu : BOOLEAN, network : BOOLEAN,
   processes : BOOLEAN, save : BOOLEAN, quiet : BOOLEAN]

NoArgs ==
  [disk |-> FALSE, memory |-> FALSE, cpu |-> FALSE, network |-> FALSE,
   processes |-> FALSE, save |-> FALSE, quiet |-> FALSE]

\* the if/elif chain of main(): the single check the flags select
SelectedCheck(a) ==
  IF a.disk THEN "check_disk_health"
  ELSE IF a.memory THEN "check_memory_health"
  ELSE IF a.cpu THEN "check_cpu_health"
  ELSE IF a.network THEN "check_network_health"
  ELSE IF a.processes THEN "check_process_health"
  ELSE "none"

\* the record of the last method call: its name, what the provider
\* returned to it and, for save_report, whether the file was written
Call(op) ==
  [op |-> op, fail |-> FALSE, parts |-> << >>, percent |-> 0, swap_total |-> 0,
   swap_percent |-> 0, sensors |-> << >>, procs |-> << >>, ok |-> FALSE]

\* the method op is the next call of the calling code
Callable(op) ==
  \/ pc = "idle"
  \/ pc = "run_all" /\ RunAllOrder[ra] = op
  \/ pc = "main_check" /\ SelectedCheck(args) = op
  \/ pc = "main_summary" /\ ~args.quiet /\ op = "print_summary"
  \/ pc = "main_save" /\ args.save /\ op = "save_report"
  \/ pc = "main_prompt_save" /\ op = "save_report"

\* the calling code after op returned; `spent` is what the call takes of
\* the idle caller's budget of calls
Return(op, spent) ==
  /\ trace' = IF pc = "run_all" THEN Append(trace, op) ELSE trace
  /\ left' = IF pc = "idle" THEN left - spent ELSE left
  /\ ra' = IF pc = "run_all" /\ ra < Len(RunAllOrder) THEN ra + 1 ELSE 0
  /\ pc' = CASE pc = "idle" -> "idle"
             [] pc = "run_all" -> IF ra < Len(RunAllOrder) THEN "run_all" ELSE "main_summary"
             [] pc = "main_check" -> "main_summary"
             [] pc = "main_summary" -> "main_save"
             [] OTHER -> "main_exit"
  /\ UNCHANGED <<args, exit_status, exc>>

CheckSystemInfo ==
  /\ Callable("check_system_info")
  /\ pc = "idle" => left > 0
  /\ \E inp \in SystemInputs :
       /\ results' = check_system_info(results, inp)
       /\ last' = [Call("check_system_info") EXCEPT !.fail = inp.fail]
  /\ Return("check_system_info", 1)

CheckDiskHealth(n, usages) ==
  /\ Callable("check_disk_health")
  /\ pc = "idle" => left > 0
  /\ \E inp \in DiskInputs(n, usages) :
       /\ results' = check_disk_health(results, inp)
       /\ last' = [Call("check_disk_health") EXCEPT !.fail = inp.fail, !.parts = inp.parts]
  /\ Return("check_disk_health", 1)

CheckMemoryHealth(percents) ==
  /\ Callable("check_memory_health")
  /\ pc = "idle" => left > 0
  /\ \E inp \in MemoryInputs(percents) :
       /\ results' = check_memory_health(results, inp)
       /\ last' = [Call("check_memory_health") EXCEPT
                     !.fail = inp.fail, !.percent = inp.percent,
                     !.swap_total = inp.swap_total, !.swap_percent = inp.swap_percent]
  /\ Return("check_memory_health", 1)

CheckCpuHealth(percents, n) ==
  /\ Callable("check_cpu_health")
  /\ pc = "idle" => left > 0
  /\ \E inp \in CpuInputs(percents, n) :
       /\ results' = check_cpu_health(results, inp)
       /\ last' = [Call("check_cpu_health") EXCEPT
                     !.fail = inp.fail, !.percent = inp.percent, !.sensors = inp.sensors]
  /\ Return("check_cpu_health", 1)

CheckNetworkHealth ==
  /\ Callable("check_network_health")
  /\ pc = "idle" => left > 0
  /\ \E inp \in NetworkInputs :
       /\ results' = check_network_health(results, inp)
       /\ last' = [Call("check_network_health") EXCEPT !.fail = inp.fail, !.ok = inp.ping]
  /\ Return("check_network_health", 1)

CheckProcessHealth(n, procs) ==
  /\ Callable("check_process_health")
  /\ pc = "idle" => left > 0
  /\ \E inp \in ProcessInputs(n, procs) :
       /\ results' = check_process_health(results, inp)
       /\ last' = [Call("check_process_health") EXCEPT !.fail = inp.fail, !.procs = inp.procs]
  /\ Return("check_process_health", 1)

CheckDiskErrors ==
  /\ Callable("check_disk_errors")
  /\ pc = "idle" => left > 0
  /\ \E inp \in DiskErrorInputs :
       /\ results' = check_disk_errors(results, inp)
       /\ last' = [Call("check_disk_errors") EXCEPT !.fail = inp.fail, !.ok = inp.io]
  /\ Return("check_disk_errors", 1)

GenerateRecommendations ==
  /\ Callable("generate_recommendations")
  /\ results' = generate_recommendations(results)
  /\ last' = Call("generate_recommendations")
  /\ Return("generate_recommendations", 0)

\* variant of PrintSummary that takes the issues off the list as it
\* prints them
PrintSummaryDraining ==
  /\ Callable("print_summary")
  /\ results' = [results EXCEPT !.issues = << >>]
  /\ last' = Call("print_summary")
  /\ Return("print_summary", 0)

\* print_summary only reads results['issues']
PrintSummary ==
  /\ Callable("print_summary")
  /\ results' = results
  /\ last' = Call("print_summary")
  /\ Return("print_summary", 0)

\* save_report: json.dump of the results to the file; written is FALSE
\* when open() or the dump raises, which the method's handler reports
SaveReport ==
  /\ Callable("save_report")
  /\ results' = results
  /\ \E written \in BOOLEAN : last' = [Call("save_report") EXCEPT !.ok = written]
  /\ Return("save_report", 0)

(***************************************************************************)
(* main() of main.py, from the construction of the SystemDiagnostic.       *)
(***************************************************************************)
\* the selection of the checks: a single check, run_all_diagnostics, or,
\* with --quiet and no single check, the redirection of stdout through
\* os.devnull, where `os` is a name the module never imports
MainDispatch ==
  /\ pc = "main_dispatch"
  /\ IF SelectedCheck(args) # "none"
     THEN pc' = "main_check" /\ ra' = 0 /\ UNCHANGED <<exc, exit_status>>
     ELSE IF ~args.quiet
     THEN pc' = "run_all" /\ ra' = 1 /\ UNCHANGED <<exc, exit_status>>
     ELSE pc' = "exited" /\ ra' = 0 /\ exc' = "NameError" /\ exit_status' = 1
  /\ UNCHANGED <<results, args, trace, last, left>>

\* the summary of the quiet mode, printed by main() itself
MainQuietSummary ==
  /\ pc = "main_summary"
  /\ args.quiet
  /\ pc' = "main_save"
  /\ UNCHANGED <<results, ra, args, exit_status, exc, trace, last, left>>

\* without --save: no prompt in quiet mode; otherwise the answer to the
\* prompt is "y" and a file name, anything else, or the end of the input
MainSavePrompt ==
  /\ pc = "main_save"
  /\ ~args.save
  /\ IF args.quiet
     THEN pc' = "main_exit"
     ELSE \E answer \in {"y", "n", "EOFError"} :
            pc' = IF answer = "y" THEN "main_prompt_save" ELSE "main_exit"
  /\ UNCHANGED <<results, ra, args, exit_status, exc, trace, last, left>>

\* sys.exit(1) if issues were found, sys.exit(0) otherwise
MainExit ==
  /\ pc = "main_exit"
  /\ pc' = "exited"
  /\ exit_status' = IF Len(results.issues) > 0 THEN 1 ELSE 0
  /\ UNCHANGED <<results, ra, args, exc, trace, last, left>>

(***************************************************************************)
(* Specifications.                                                         *)
(***************************************************************************)
NoStatus == -1

InitObject ==
  /\ results = NewResults
  /\ ra = 0
  /\ exit_status = NoStatus
  /\ exc = "none"
  /\ trace = << >>
  /\ last = Call("__init__")

\* a caller that makes up to MaxChecks check_* calls, and any number of
\* the other calls, on one object
Init ==
  /\ InitObject
  /\ pc = "idle"
  /\ args = NoArgs
  /\ left = MaxChecks

Next ==
  \/ CheckSystemInfo
  \/ CheckDiskHealth(MaxParts, NarrowUsages)
  \/ CheckMemoryHealth(NarrowPercents)
  \/ CheckCpuHealth(NarrowPercents, MaxSensors)
  \/ CheckNetworkHealth
  \/ CheckProcessHealth(MaxProcs, Procs)
  \/ CheckDiskErrors
  \/ GenerateRecommendations
  \/ PrintSummary
  \/ SaveReport

Spec == Init /\ [][Next]_vars

\* the threshold checks on the wide sample sets
CheckInit ==
  /\ InitObject
  /\ pc = "idle"
  /\ args = NoArgs
  /\ left = MaxProbes

CheckNext ==
  \/ CheckDiskHealth(MaxParts, WideUsages)
  \/ CheckMemoryHealth(WidePercents)
  \/ CheckCpuHealth(WidePercents, MaxSensors)
  \/ GenerateRecommendations

CheckSpec == CheckInit /\ [][CheckNext]_vars

\* the process check on the processes of the top-5 example
RankInit ==
  /\ InitObject
  /\ pc = "idle"
  /\ args = NoArgs
  /\ left = MaxProbes

RankNext ==
  \/ CheckProcessHealth(MaxRanked, RankProcs)
  \/ GenerateRecommendations

RankSpec == RankInit /\ [][RankNext]_vars

\* main.py under every command line
MainInit ==
  /\ InitObject
  /\ pc = "main_dispatch"
  /\ args \in ArgSets
  /\ left = 0

MainNext ==
  \/ MainDispatch
  \/ CheckSystemInfo
  \/ CheckDiskHealth(MaxHostParts, NarrowUsages)
  \/ CheckMemoryHealth(NarrowPercents)
  \/ CheckCpuHealth(NarrowPercents, MaxSensors)
  \/ CheckNetworkHealth
  \/ CheckProcessHealth(MaxProcs, Procs)
  \/ CheckDiskErrors
  \/ GenerateRecommendations
  \/ PrintSummary
  \/ MainQuietSummary
  \/ SaveReport
  \/ MainSavePrompt
  \/ MainExit

MainSpec == MainInit /\ [][MainNext]_vars

(***************************************************************************)
(* Properties.                                                             *)
(***************************************************************************)
IsPrefix(s, t) == Len(s) <= Len(t) /\ SubSeq(t, 1, Len(s)) = s

\* the partitions of the last enumeration whose entry is the one stored
\* for their device (no later partition has the same device)
StoredParts == {i \in DOMAIN last.parts :
                  \A j \in DOMAIN last.parts : j > i => last.parts[j].device # last.parts[i].device}

\* the threshold policy on a percentage given in thousandths of a percent
PolicyHolds(status, milli) ==
  /\ status = "critical" <=> milli > 90000
  /\ status = "warning" <=> (milli > 80000 /\ milli <= 90000)
  /\ status = "healthy" <=> milli <= 80000

\* the threshold policy on the percentage used / total * 100
PolicyHoldsDisk(status, p) ==
  /\ status = "critical" <=> p.used * 100 > 90 * p.total
  /\ status = "warning" <=> (p.used * 100 > 80 * p.total /\ p.used * 100 <= 90 * p.total)
  /\ status = "healthy" <=> p.used * 100 <= 80 * p.total

\* C1: after check_disk_health, check_memory_health or check_cpu_health
\* read a percentage p, the status stored in the entry is 'critical' iff
\* p > 90, 'warning' iff 80 < p <= 90 and 'healthy' otherwise; 80.0 is
\* healthy and 90.0 is a warning.
C1_ThresholdPolicy ==
  /\ (last.op = "check_memory_health" /\ ~last.fail)
       => PolicyHolds(results.memory_health.status, last.percent)
  /\ (last.op = "check_cpu_health" /\ ~last.fail)
       => PolicyHolds(results.cpu_health.status, last.percent)
  /\ (last.op = "check_disk_health" /\ ~last.fail)
       => \A i \in StoredParts :
            LET p == last.parts[i]
            IN (p.outcome = "ok" /\ p.total > 0)
                 => PolicyHoldsDisk(results.disk_health.vals[p.device].status, p)

\* a partition at exactly 80.0% whose stored entry is healthy
C1_Witness ==
  /\ last.op = "check_disk_health"
  /\ \E i \in StoredParts :
       /\ last.parts[i].outcome = "ok"
       /\ last.parts[i].used = 80000 /\ last.parts[i].total = 100000
       /\ results.disk_health.vals[last.parts[i].device].status = "healthy"

\* main() is past its call of run_all_diagnostics
RunAllReturned ==
  /\ SelectedCheck(args) = "none"
  /\ exc = "none"
  /\ pc \in {"main_summary", "main_save", "main_prompt_save", "main_exit", "exited"}

\* C2: run_all_diagnostics invokes system_info, disk, memory, cpu, network,
\* process, disk_errors and then generate_recommendations, each exactly
\* once and in this order, before it returns the report.
C2_RunAllOrder ==
  LET order == << "check_system_info", "check_disk_health", "check_memory_health",
                  "check_cpu_health", "check_network_health", "check_process_health",
                  "check_disk_errors", "generate_recommendations" >>
  IN /\ pc = "run_all" => (ra \in 1..8 /\ trace = SubSeq(order, 1, ra - 1))
     /\ RunAllReturned => trace = order

\* run_all_diagnostics has returned after its eight calls
C2_Witness == RunAllReturned /\ Len(trace) = 8 /\ pc = "main_summary"

\* what the provider returned to the call recorded as c, as the input of
\* a check that did not fail
InputOf(c) ==
  [fail |-> FALSE, os |-> "Linux", parts |-> c.parts, percent |-> c.percent,
   swap_total |-> c.swap_total, swap_percent |-> c.swap_percent,
   sensors |-> c.sensors, procs |-> c.procs, ping |-> c.ok, io |-> c.ok]

Sections ==
  {"system_info", "disk_health", "memory_health", "cpu_health", "network_health",
   "process_health"}

\* the section a check writes
SectionOf(op) ==
  CASE op = "check_system_info" -> "system_info"
    [] op = "check_disk_health" -> "disk_health"
    [] op = "check_memory_health" -> "memory_health"
    [] op = "check_cpu_health" -> "cpu_health"
    [] op = "check_network_health" -> "network_health"
    [] op = "check_process_health" -> "process_health"
    [] OTHER -> "none"

\* the check op on the report r with the input inp
Apply(op, r, inp) ==
  CASE op = "check_system_info" -> check_system_info(r, inp)
    [] op = "check_disk_health" -> check_disk_health(r, inp)
    [] op = "check_memory_health" -> check_memory_health(r, inp)
    [] op = "check_cpu_health" -> check_cpu_health(r, inp)
    [] op = "check_network_health" -> check_network_health(r, inp)
    [] op = "check_process_health" -> check_process_health(r, inp)
    [] OTHER -> r

\* C3: in run_all_diagnostics a check whose provider fails appends exactly
\* one issue and changes no section; a check that does not fail changes no
\* section but its own and stores there what it stores in a run without
\* any failure (its entry on a new report); and after every check, failed
\* or not, run_all_diagnostics goes on to its next call and returns the
\* report after the last, without an exception.
C3_FailureIsolation ==
  [][(pc = "run_all" /\ ra <= 7) =>
       LET op == RunAllOrder[ra]
       IN /\ exc' = "none"
          /\ trace' = Append(trace, op)
          /\ pc' = "run_all" /\ ra' = ra + 1
          /\ results'.recommendations = results.recommendations
          /\ \A s \in Sections \ {SectionOf(op)} : results'[s] = results[s]
          /\ last'.fail =>
               /\ Len(results'.issues) = Len(results.issues) + 1
               /\ IsPrefix(results.issues, results'.issues)
               /\ \A s \in Sections : results'[s] = results[s]
          /\ (~last'.fail /\ SectionOf(op) # "none") =>
               results'[SectionOf(op)]
                 = Apply(op, NewResults, InputOf(last'))[SectionOf(op)]
    ]_vars

\* run_all_diagnostics returned although the disk check and the network
\* check failed; the checks between and after them stored their entries
C3_Witness ==
  /\ RunAllReturned
  /\ Len(trace) = 8
  /\ \E i, j \in DOMAIN results.issues :
       /\ results.issues[i].kind = "Error checking disk health"
       /\ results.issues[j].kind = "Error checking network"
  /\ results.disk_health = EmptyOrdered
  /\ results.network_health = EmptyDict
  /\ results.memory_health # EmptyDict
  /\ results.process_health # EmptyDict
  /\ results.recommendations # << >>

\* C4 as stated: when generate_recommendations has run on a report whose
\* issues list is empty, recommendations is exactly the 'System appears to
\* be running normally' sentinel.
C4_SentinelWhenNoIssues ==
  (last.op = "generate_recommendations" /\ results.issues = << >>)
    => results.recommendations = << Sentinel >>

\* C4 as amended: when generate_recommendations has run on a report whose
\* issues list is empty, recommendations has exactly one element: the
\* recommendation naming the top CPU process if that process is above 80%
\* CPU (check_process_health records no issue for it), and the sentinel
\* otherwise.
C4_SentinelUnlessHotProcess ==
  (last.op = "generate_recommendations" /\ results.issues = << >>)
    => LET top == Get(results.process_health, "top_cpu_processes", << >>)
       IN IF top # << >> /\ top[1].cpu_percent > 8000
          THEN results.recommendations
                 = << Text("Process is using high CPU", top[1].name, "", 0) >>
          ELSE results.recommendations = << Sentinel >>

\* generate_recommendations ran with no issue recorded and a process
\* above 80% CPU in process_health
C4_Witness ==
  /\ last.op = "generate_recommendations"
  /\ results.issues = << >>
  /\ results.process_health # EmptyDict
  /\ results.process_health.top_cpu_processes # << >>
  /\ results.process_health.top_cpu_processes[1].cpu_percent > 8000
  /\ Len(results.recommendations) = 1

\* C5: for every command line of main.py the exit status is non-zero iff
\* the issues list is non-empty after the selected checks ran.
C5_ExitStatus ==
  pc = "exited" => (exit_status # 0 <=> Len(results.issues) > 0)

\* the report that holds only the four sections generate_recommendations
\* reads, everything else as after construction
FourSections(r) ==
  [NewResults EXCEPT !.disk_health = r.disk_health,
                     !.memory_health = r.memory_health,
                     !.cpu_health = r.cpu_health,
                     !.process_health = r.process_health]

\* C6: the list generate_recommendations stores is the one it stores for a
\* report with the same disk_health, memory_health, cpu_health and
\* process_health and nothing else (it does not depend on the previous
\* recommendations or on any other field), and a second call in a row
\* stores the same list as the first.
C6_RecommendationsIdempotent ==
  [][last'.op = "generate_recommendations" =>
       /\ results'.recommendations
            = generate_recommendations(FourSections(results)).recommendations
       /\ last.op = "generate_recommendations"
            => results'.recommendations = results.recommendations
    ]_vars

\* generate_recommendations ran on a report with issues and found
\* something to recommend; the caller can call it again
C6_Witness ==
  /\ last.op = "generate_recommendations"
  /\ pc = "idle"
  /\ results.issues # << >>
  /\ results.recommendations # << Sentinel >>
  /\ results.recommendations # << >>

\* C7: print_summary and save_report, in any report state and whether the
\* file is written or not, leave issues and every other field of the
\* report unchanged.
C7_ObserversReadOnly ==
  [][last'.op \in {"print_summary", "save_report"} => results' = results]_vars

\* a save_report that failed on a partly populated report with issues
C7_Witness ==
  /\ last.op = "save_report"
  /\ ~last.ok
  /\ results.issues # << >>
  /\ results.memory_health = EmptyDict
  /\ results.disk_health # EmptyOrdered

\* C8: the issues list before an operation is a prefix of the issues list
\* after it, and generate_recommendations leaves it unchanged.
C8_IssuesAppendOnly ==
  [][/\ IsPrefix(results.issues, results'.issues)
     /\ last'.op = "generate_recommendations" => results'.issues = results.issues
    ]_vars

\* two checks appended issues one after the other, then
\* generate_recommendations ran
C8_Witness ==
  /\ last.op = "generate_recommendations"
  /\ Len(results.issues) >= 2
  /\ results.memory_health # EmptyDict

\* C9: a partition whose total capacity is 0 gets an entry with
\* percent_used = 0 and status 'healthy', and no issue is appended for it.
C9_ZeroTotalHealthy ==
  (last.op = "check_disk_health" /\ ~last.fail)
    => \A i \in StoredParts :
         LET p == last.parts[i]
             info == results.disk_health.vals[p.device]
         IN (p.outcome = "ok" /\ p.total = 0)
              => /\ Get(info, "percent_used", None) = 0
                 /\ info.status = "healthy"

\* C10 as stated: whenever the enumeration of check_disk_health fails, on
\* a first or a repeated call, exactly one issue is appended and
\* disk_health is empty afterwards.
C10_EnumerationFailureEmpties ==
  [][(last'.op = "check_disk_health" /\ last'.fail) =>
       /\ Len(results'.issues) = Len(results.issues) + 1
       /\ results'.disk_health = EmptyOrdered
    ]_vars

\* C10 as amended: whenever the enumeration of check_disk_health fails,
\* exactly one issue, 'Error checking disk health', is appended and
\* disk_health is left as it was before the call: empty on a pipeline
\* whose disk_health was never populated, the entries of the previous
\* successful call otherwise.
C10_EnumerationFailureKeeps ==
  [][(last'.op = "check_disk_health" /\ last'.fail) =>
       /\ results'.issues
            = Append(results.issues, Text("Error checking disk health", "", "", 0))
       /\ results'.disk_health = results.disk_health
       /\ results.disk_health = NewResults.disk_health
            => results'.disk_health = EmptyOrdered
    ]_vars

\* the enumeration failed on a repeated call: the entries of the first
\* call are still there, followed in issues by the one error
C10_Witness ==
  /\ last.op = "check_disk_health"
  /\ last.fail
  /\ results.disk_health.keys # << >>
  /\ results.issues # << >>
  /\ results.issues[Len(results.issues)].kind = "Error checking disk health"

\* the number of elements of the list s that are of the kind k
CountKind(s, k) == Cardinality({i \in DOMAIN s : s[i].kind = k})

\* the readings of the last check_cpu_health call whose current value
\* exceeds their critical threshold
HotReadings(c) ==
  {i \in DOMAIN c.sensors :
     c.sensors[i].critical # None /\ c.sensors[i].current > c.sensors[i].critical}

\* C11 as stated: check_cpu_health appends one 'CRITICAL: CPU temperature'
\* issue for every reading whose current value exceeds its critical
\* threshold, whatever the sensor's name and the usage-based status.
C11_IssuePerHotReading ==
  [][(last'.op = "check_cpu_health" /\ ~last'.fail) =>
       CountKind(results'.issues, "CRITICAL: CPU temperature")
         = CountKind(results.issues, "CRITICAL: CPU temperature")
           + Cardinality(HotReadings(last'))
    ]_vars

\* C11 as amended: check_cpu_health appends one 'CRITICAL: CPU temperature'
\* issue for every reading of a sensor whose name contains 'cpu' or 'core'
\* and whose current value exceeds its critical threshold, whatever the
\* usage-based status; the readings of the other sensors are not looked at
\* and add no issue.
C11_IssuePerHotCpuReading ==
  [][(last'.op = "check_cpu_health" /\ ~last'.fail) =>
       CountKind(results'.issues, "CRITICAL: CPU temperature")
         = CountKind(results.issues, "CRITICAL: CPU temperature")
           + Cardinality({i \in HotReadings(last') :
                            last'.sensors[i].name \in {"coretemp", "cpu_thermal"}})
    ]_vars

\* a healthy CPU usage with a hot core sensor and a hot sensor of another
\* chip: one temperature issue and no usage issue
C11_Witness ==
  /\ last.op = "check_cpu_health"
  /\ results.cpu_health.status = "healthy"
  /\ Cardinality(HotReadings(last)) = 2
  /\ \E i, j \in HotReadings(last) :
        last.sensors[i].name = "coretemp" /\ last.sensors[j].name = "acpitz"
  /\ CountKind(results.issues, "CRITICAL: CPU temperature") = 1
  /\ CountKind(results.issues, "WARNING: CPU usage") = 0

\* the processes of the enumeration c that were read
ReadProcs(c) == {i \in DOMAIN c.procs : ~c.procs[i].gone}

\* the processes read whose metric is above the floor
Candidates(c, key, floor) ==
  {i \in ReadProcs(c) : c.procs[i][key] # None /\ c.procs[i][key] > floor}

\* the candidates the list top names, by pid
Listed(c, key, floor, top) ==
  {i \in Candidates(c, key, floor) : \E k \in DOMAIN top : top[k].pid = c.procs[i].pid}

\* every element of top is the entry of a candidate, each candidate at
\* most once, and top has 5 elements or all the candidates
ListsCandidates(c, key, floor, top) ==
  /\ Len(top) = (IF Cardinality(Candidates(c, key, floor)) < 5
                 THEN Cardinality(Candidates(c, key, floor)) ELSE 5)
  /\ \A k, l \in DOMAIN top : top[k].pid = top[l].pid => k = l
  /\ \A k \in DOMAIN top :
       \E i \in Candidates(c, key, floor) :
         /\ top[k].pid = c.procs[i].pid
         /\ top[k].name = c.procs[i].name
         /\ top[k][key] = RoundDiv(c.procs[i][key], 10)

\* the position in the enumeration of the process with this pid
IndexOf(c, pid) == CHOOSE i \in DOMAIN c.procs : c.procs[i].pid = pid

\* top holds the candidates with the highest metric: the percentages it
\* lists are in descending order and no candidate left out has a higher
\* metric than a candidate listed
RankedByMetric(c, key, floor, top) ==
  /\ ListsCandidates(c, key, floor, top)
  /\ \A k, l \in DOMAIN top : k < l => top[k][key] >= top[l][key]
  /\ \A i \in Candidates(c, key, floor) \ Listed(c, key, floor, top) :
       \A k \in DOMAIN top : c.procs[i][key] <= c.procs[IndexOf(c, top[k].pid)][key]

\* top ranks the candidates by the metric rounded to 2 decimals, and
\* candidates with the same rounded metric by their place in the enumeration
RankedByStored(c, key, floor, top) ==
  /\ ListsCandidates(c, key, floor, top)
  /\ \A k, l \in DOMAIN top :
       k < l => \/ top[k][key] > top[l][key]
                \/ /\ top[k][key] = top[l][key]
                   /\ IndexOf(c, top[k].pid) < IndexOf(c, top[l].pid)
  /\ \A i \in Candidates(c, key, floor) \ Listed(c, key, floor, top) :
       \A k \in DOMAIN top :
         \/ top[k][key] > RoundDiv(c.procs[i][key], 10)
         \/ /\ top[k][key] = RoundDiv(c.procs[i][key], 10)
            /\ IndexOf(c, top[k].pid) < i

\* C12 as stated: after check_process_health, top_cpu_processes is exactly
\* the at most 5 processes read with the highest CPU% among those with
\* CPU% > 50, in descending CPU% order; top_memory_processes is the same
\* for memory% > 10; total_processes counts every process read.
C12_TopFiveByMetric ==
  (last.op = "check_process_health" /\ ~last.fail) =>
    /\ RankedByMetric(last, "cpu_percent", 50000, results.process_health.top_cpu_processes)
    /\ RankedByMetric(last, "memory_percent", 10000,
                      results.process_health.top_memory_processes)
    /\ results.process_health.total_processes = Cardinality(ReadProcs(last))

\* C12 as amended: after check_process_health, top_cpu_processes is
\* exactly the at most 5 processes read with the highest CPU% rounded to 2
\* decimals among those with CPU% > 50, in descending order of the rounded
\* CPU%, processes with the same rounded CPU% ranked in the order of the
\* enumeration; top_memory_processes is the same for memory% > 10;
\* total_processes counts every process read.
C12_TopFiveByStored ==
  (last.op = "check_process_health" /\ ~last.fail) =>
    /\ RankedByStored(last, "cpu_percent", 50000, results.process_health.top_cpu_processes)
    /\ RankedByStored(last, "memory_percent", 10000,
                      results.process_health.top_memory_processes)
    /\ results.process_health.total_processes = Cardinality(ReadProcs(last))

\* the eight processes of the example, not enumerated in the order of
\* their CPU%, give the top list 95, 88, 77, 60, 55
C12_Witness ==
  /\ last.op = "check_process_health"
  /\ Len(last.procs) = 8
  /\ last.procs[1].cpu_percent = 10000
  /\ last.procs[8].cpu_percent = 95000
  /\ results.process_health.total_processes = 8
  /\ [k \in 1..5 |-> results.process_health.top_cpu_processes[k].cpu_percent]
       = << 9500, 8800, 7700, 6000, 5500 >>
  /\ Len(results.process_health.top_memory_processes) = 5

\* the devices of disk_health, in the order of the entries, whose entry
\* has a percent_used above 80
FullDevices(r) ==
  SelectSeq(r.disk_health.keys,
            LAMBDA d : /\ "percent_used" \in DOMAIN r.disk_health.vals[d]
                       /\ r.disk_health.vals[d].percent_used > 8000)

MemoryRuleFires(r) == r.memory_health # EmptyDict /\ r.memory_health.percent_used > 8000

CpuRuleFires(r) == r.cpu_health # EmptyDict /\ r.cpu_health.usage_percent > 8000

ProcessRuleFires(r) ==
  /\ r.process_health # EmptyDict
  /\ r.process_health.top_cpu_processes # << >>
  /\ r.process_health.top_cpu_processes[1].cpu_percent > 8000

\* C13: generate_recommendations replaces the recommendations list by: one
\* recommendation per disk entry whose percent_used > 80, in the order of
\* the entries, then the memory recommendation if memory percent_used > 80,
\* then the CPU recommendation if usage_percent > 80, then the
\* recommendation naming the top CPU process if its percent > 80; the
\* 'system normal' recommendation is in the list iff none of the four
\* rules fired, and is then its only element.
C13_RecommendationRules ==
  [][last'.op = "generate_recommendations" =>
       LET full  == FullDevices(results)
           fired == \/ full # << >>
                    \/ MemoryRuleFires(results)
                    \/ CpuRuleFires(results)
                    \/ ProcessRuleFires(results)
           rules ==
             [i \in DOMAIN full |->
                Text("Free up space", full[i], results.disk_health.vals[full[i]].mountpoint,
                     RoundDiv(results.disk_health.vals[full[i]].percent_used, 10))]
             \o (IF MemoryRuleFires(results)
                 THEN << Text("High memory usage detected", "", "", 0) >> ELSE << >>)
             \o (IF CpuRuleFires(results)
                 THEN << Text("High CPU usage detected", "", "", 0) >> ELSE << >>)
             \o (IF ProcessRuleFires(results)
                 THEN << Text("Process is using high CPU",
                              results.process_health.top_cpu_processes[1].name, "", 0) >>
                 ELSE << >>)
       IN /\ fired => results'.recommendations = rules
          /\ ~fired => results'.recommendations = << Sentinel >>
          /\ (\E i \in DOMAIN results'.recommendations :
                results'.recommendations[i] = Sentinel) <=> ~fired
    ]_vars

\* generate_recommendations ran on two full disk entries, sdb1 stored
\* before sda1, and a high CPU usage
C13_Witness ==
  /\ last.op = "generate_recommendations"
  /\ Len(FullDevices(results)) = 2
  /\ CpuRuleFires(results)
  /\ Len(results.recommendations) = 3
  /\ results.recommendations[1].dev = "sdb1"
  /\ results.recommendations[2].dev = "sda1"
  /\ results.recommendations[3].kind = "High CPU usage detected"

\* the issues the last operation appended
Appended(before, after) == SubSeq(after, Len(before) + 1, Len(after))

\* the status a disk issue stands for
IssueStatus(issue) ==
  CASE issue.kind = "CRITICAL: disk full!" -> "critical"
    [] issue.kind = "WARNING: disk full" -> "warning"
    [] OTHER -> "none"

\* the partitions of the enumeration c whose usage was read and is over 80%
OverParts(c) ==
  SelectSeq(c.parts, LAMBDA p : p.outcome = "ok" /\ p.total > 0 /\ p.used * 100 > 80 * p.total)

\* the devices whose entry in the disk_health d has a threshold status
OverEntries(d) == {dev \in Range(d.keys) : d.vals[dev].status \in {"critical", "warning"}}

\* C14 as stated: after a check_disk_health that completes the enumeration,
\* the CRITICAL and WARNING issues it appended correspond one-to-one to
\* the disk_health entries with status 'critical' and 'warning': every
\* such issue names a device whose entry has the matching status and every
\* such entry has exactly one issue, also when partitions share a device.
C14_IssuesMatchEntries ==
  [][(last'.op = "check_disk_health" /\ ~last'.fail) =>
       LET new == Appended(results.issues, results'.issues)
           d   == results'.disk_health
       IN /\ \A i \in DOMAIN new :
               /\ new[i].dev \in OverEntries(d)
               /\ d.vals[new[i].dev].status = IssueStatus(new[i])
          /\ \A dev \in OverEntries(d) :
               Cardinality({i \in DOMAIN new : new[i].dev = dev}) = 1
    ]_vars

\* C14 as amended: after a check_disk_health that completes the
\* enumeration, the CRITICAL and WARNING issues it appended correspond
\* one-to-one, in order, to the partitions whose usage was read and is over
\* 80% (CRITICAL over 90%), each naming the partition's device and
\* mountpoint; an entry has status 'critical' or 'warning' iff the last
\* partition enumerated for its device is one of these, and then the issue
\* of that partition matches it.  The issue of an earlier partition of
\* the same device stays although the entry was overwritten.
C14_IssuesMatchPartitions ==
  [][(last'.op = "check_disk_health" /\ ~last'.fail) =>
       LET new  == Appended(results.issues, results'.issues)
           over == OverParts(last')
           d    == results'.disk_health
           c    == last'
           kept == {i \in DOMAIN c.parts :
                      \A j \in DOMAIN c.parts : j > i => c.parts[j].device # c.parts[i].device}
       IN /\ Len(new) = Len(over)
          /\ \A i \in DOMAIN new :
               /\ new[i].dev = over[i].device
               /\ new[i].mount = over[i].mountpoint
               /\ IssueStatus(new[i])
                    = (IF over[i].used * 100 > 90 * over[i].total THEN "critical" ELSE "warning")
          /\ \A i \in kept :
               LET p == c.parts[i]
               IN IF p \in Range(over)
                  THEN /\ p.device \in OverEntries(d)
                       /\ \E k \in DOMAIN new :
                            /\ new[k].dev = p.device
                            /\ new[k].mount = d.vals[p.device].mountpoint
                            /\ IssueStatus(new[k]) = d.vals[p.device].status
                  ELSE p.device \notin OverEntries(d)
          /\ OverEntries(d) \subseteq {c.parts[i].device : i \in kept}
    ]_vars

\* two partitions of one device: the first is 92% full, reading the second
\* is denied; the CRITICAL issue names a device whose entry says
\* access_denied
C14_Witness ==
  /\ last.op = "check_disk_health"
  /\ Len(last.parts) = 2
  /\ last.parts[1].device = last.parts[2].device
  /\ last.parts[1].outcome = "ok" /\ last.parts[1].used = 92
  /\ last.parts[2].outcome = "denied"
  /\ Len(results.issues) = 1
  /\ results.issues[1].kind = "CRITICAL: disk full!"
  /\ results.disk_health.vals[results.issues[1].dev].status = "access_denied"

\* C15: after check_disk_health followed by generate_recommendations, a
\* device's entry has status 'warning' or 'critical' iff recommendations
\* contains a 'Free up space' recommendation for that device, also for
\* percentages just above 80 such as 80.004.
C15_StatusAgreesWithRecommendation ==
  (last.op = "generate_recommendations" /\ results.disk_health.keys # << >>) =>
    \A dev \in Range(results.disk_health.keys) :
      results.disk_health.vals[dev].status \in {"warning", "critical"}
        <=> \E i \in DOMAIN results.recommendations :
              /\ results.recommendations[i].kind = "Free up space"
              /\ results.recommendations[i].dev = dev

\* the sentinel is in the recommendations of the report
HasSentinel == \E i \in DOMAIN results.recommendations : results.recommendations[i] = Sentinel

====
